---- MODULE Spec2Model ----
(***************************************************************************)
(* Model of src/main.py, the Streamlit page "Segmentacao de Clientes".     *)
(*                                                                         *)
(* The script is executed top to bottom on every user interaction (one     *)
(* "run").  The widget values live in the browser session between runs;    *)
(* get_dataset_info is cached (st.cache_data), so its body executes in the *)
(* first run only.  A run is modelled as a sequence of steps, one per      *)
(* section of the script; between two runs the user changes one widget.    *)
(*                                                                         *)
(* The parquet file does not change during a session (it is a local cached *)
(* copy, and the cache of get_dataset_info outlives the session modelled). *)
(* The session keeps the dates picked for a range whose toggle was         *)
(* switched off again; the script ignores them (its variables are None).   *)
(* An engine call may raise wherever the script has a try around it.       *)
(***************************************************************************)
EXTENDS Integers, Sequences, FiniteSets, TLC

\* ------------------------------------------------------------------ bounds
MaxDay == 1            \* the calendar offers the days 0..MaxDay
TicksPerDay == 2       \* instants of one day: 0 = midnight, TicksPerDay-1 = time.max
BigMult == 600000      \* how many copies of one row a large dataset holds
MaxInteractions == 2   \* user interactions (reruns) in one session

\* ------------------------------------------------------- program constants
ExcelLimit == 1000000  \* main.py:570
PreviewLimit == 100    \* main.py:485

None == -1             \* Python None / SQL NULL of a date or timestamp value
NULL == "NULL"         \* SQL NULL of a text value

Days == 0..MaxDay

\* ----------------------------------------------------------------- dataset
\* The parquet file is a bag of rows: three kinds of row, each with a
\* multiplicity.  Timestamps are day * TicksPerDay + tick.
RowIds == 1..3

Row(r) ==
  CASE r = 1 -> [member_pk |-> "m1", categoria |-> "A", setor |-> "X",
                 data_ultima_visita |-> 0,
                 data_ultima_compra |-> 2 * TicksPerDay - 1,
                 data_cadastro |-> 0,
                 flg_funcionario |-> "S", flg_premium_ativo |-> "S"]
    [] r = 2 -> [member_pk |-> "m2", categoria |-> "B", setor |-> "X",
                 data_ultima_visita |-> 2 * TicksPerDay - 1,
                 data_ultima_compra |-> None,
                 data_cadastro |-> TicksPerDay,
                 flg_funcionario |-> "N", flg_premium_ativo |-> NULL]
    [] r = 3 -> [member_pk |-> "m3", categoria |-> "A", setor |-> NULL,
                 data_ultima_visita |-> None,
                 data_ultima_compra |-> 0,
                 data_cadastro |-> TicksPerDay,
                 flg_funcionario |-> NULL, flg_premium_ativo |-> "N"]

\* Row 1 is always present, so every date column has a minimum and a maximum.
Datasets ==
  { [r \in RowIds |-> CASE r = 1 -> m1 [] r = 2 -> m2 [] r = 3 -> m3] :
      m1 \in {1, BigMult}, m2 \in {0, BigMult}, m3 \in {0, 1} }

Schemas == [flg_funcionario : BOOLEAN, flg_premium_ativo : BOOLEAN]

RECURSIVE SumMult(_, _)
SumMult(ds, S) ==
  IF S = {} THEN 0
  ELSE LET r == CHOOSE x \in S : TRUE IN ds[r] + SumMult(ds, S \ {r})

Present(ds) == { r \in RowIds : ds[r] > 0 }

MinOf(S) == CHOOSE x \in S : \A y \in S : x <= y
MaxOf(S) == CHOOSE x \in S : \A y \in S : x >= y
Min2(a, b) == IF a <= b THEN a ELSE b

\* SQL MIN / MAX of a timestamp column: NULLs are skipped.
ColValues(ds, col) == { Row(r)[col] : r \in Present(ds) } \ {None}

\* pandas Timestamp.date()
DateOf(ts) == ts \div TicksPerDay

\* DuckDB's cast of the literal 'YYYY-MM-DD' to a timestamp: midnight.
DateLiteral(d) == d * TicksPerDay

\* datetime.combine(d, datetime.max.time()): the last instant of the day.
CombineMaxTime(d) == d * TicksPerDay + (TicksPerDay - 1)

\* ------------------------------------------------------- get_dataset_info
NoneInfo ==
  [caminho |-> "None", num_rows |-> 0, categorias |-> {}, setores |-> {},
   available_columns |-> {},
   min_visita |-> None, max_visita |-> None,
   min_compra |-> None, max_compra |-> None,
   min_cadastro |-> None, max_cadastro |-> None,
   has_flg_premium |-> FALSE, has_flg_funcionario |-> FALSE]

BaseColumns ==
  {"member_pk", "categoria", "setor", "data_ultima_visita",
   "data_ultima_compra", "data_cadastro"}

Columns(sch) ==
  BaseColumns
    \cup (IF sch.flg_funcionario THEN {"flg_funcionario"} ELSE {})
    \cup (IF sch.flg_premium_ativo THEN {"flg_premium_ativo"} ELSE {})

\* The sample of DISTINCT (categoria, setor) pairs with neither NULL.
SampleRows(ds) ==
  { r \in Present(ds) : Row(r).categoria # NULL /\ Row(r).setor # NULL }

\* The dictionary returned when nothing raises; describe_ok is FALSE when the
\* inner DESCRIBE query raises and the inner except supplies the defaults.
DatasetInfo(ds, sch, describe_ok) ==
  LET cols == IF describe_ok THEN Columns(sch) ELSE {} IN
  [caminho |-> "dataset.parquet",
   num_rows |-> SumMult(ds, RowIds),
   categorias |-> { Row(r).categoria : r \in SampleRows(ds) },
   setores |-> { Row(r).setor : r \in SampleRows(ds) },
   available_columns |-> cols,
   min_visita |-> MinOf(ColValues(ds, "data_ultima_visita")),
   max_visita |-> MaxOf(ColValues(ds, "data_ultima_visita")),
   min_compra |-> MinOf(ColValues(ds, "data_ultima_compra")),
   max_compra |-> MaxOf(ColValues(ds, "data_ultima_compra")),
   min_cadastro |-> MinOf(ColValues(ds, "data_cadastro")),
   max_cadastro |-> MaxOf(ColValues(ds, "data_cadastro")),
   has_flg_premium |-> "flg_premium_ativo" \in cols,
   has_flg_funcionario |-> "flg_funcionario" \in cols]

\* ------------------------------------------------------- sidebar widgets
\* The session state of the widgets.  A date widget that the user has not
\* touched holds None here and shows its default (value=...).
\* What the user may type into "Buscar Cliente (ID)": nothing, a blank, an
\* existing id, and a text that carries single quotes.
InjectionId == "x' OR '1'='1"
IdInputs == {"", " ", "m1", InjectionId}
FuncOptions == {"Todos", "Apenas funcionarios", "Excluir funcionarios"}
Formats == {"CSV", "Excel"}

InitialSession ==
  [id_busca |-> "", cat_sel |-> {}, setor_sel |-> {},
   apenas_sem_compra |-> FALSE,
   filtro_funcionarios |-> "Todos",
   apenas_premium |-> FALSE, excluir_premium |-> FALSE,
   toggle_cadastro |-> FALSE, inicio_cadastro |-> None, fim_cadastro |-> None,
   inicio_visita |-> None, fim_visita |-> None,
   toggle_compra |-> FALSE, inicio_compra |-> None, fim_compra |-> None,
   only_member_pk |-> FALSE, export_format |-> "CSV"]

\* st.date_input(value=default, key=...): the user's pick, else the default.
date_input(held, default) == IF held = None THEN DateOf(default) ELSE held

\* The script's globals after the sidebar block, as the widgets return them.
id_busca(s) == s.id_busca
cat_sel(s) == s.cat_sel
setor_sel(s) == s.setor_sel
apenas_sem_compra(s) == s.apenas_sem_compra
filtro_funcionarios(s, info) ==
  IF info.has_flg_funcionario THEN s.filtro_funcionarios ELSE "Todos"
apenas_premium(s, info) ==
  IF info.has_flg_premium THEN s.apenas_premium ELSE FALSE
excluir_premium(s, info) ==
  IF info.has_flg_premium THEN s.excluir_premium ELSE FALSE
usar_cadastro(s) == s.toggle_cadastro
data_inicio_cadastro(s, info) ==
  IF s.toggle_cadastro THEN date_input(s.inicio_cadastro, info.min_cadastro)
  ELSE None
data_fim_cadastro(s, info) ==
  IF s.toggle_cadastro THEN date_input(s.fim_cadastro, info.max_cadastro)
  ELSE None
data_inicio_visita(s, info) == date_input(s.inicio_visita, info.min_visita)
data_fim_visita(s, info) == date_input(s.fim_visita, info.max_visita)
usar_compra(s) == s.toggle_compra
data_inicio_compra(s, info) ==
  IF s.toggle_compra THEN date_input(s.inicio_compra, info.min_compra)
  ELSE None
data_fim_compra(s, info) ==
  IF s.toggle_compra THEN date_input(s.fim_compra, info.max_compra)
  ELSE None
only_member_pk(s) == s.only_member_pk
export_format(s) == s.export_format

\* ------------------------------------------------ build_query_conditions
\* One condition of the WHERE clause: column, operator, and the literal(s)
\* interpolated into it (num for a timestamp literal, strs for text literals).
Cond(col, op, num, strs) == [col |-> col, op |-> op, num |-> num, strs |-> strs]

\* str.strip() on the inputs of IdInputs
Strip(x) == IF x = " " THEN "" ELSE x

\* if id_busca and id_busca.strip(): member_pk = '{id_busca}'
IdConds(s) ==
  IF id_busca(s) # "" /\ Strip(id_busca(s)) # ""
  THEN << Cond("member_pk", "=", None, {id_busca(s)}) >>
  ELSE << >>

\* if cat_sel: categoria IN (...)
CatConds(s) ==
  IF cat_sel(s) # {} THEN << Cond("categoria", "IN", None, cat_sel(s)) >>
  ELSE << >>

\* if setor_sel: setor IN (...)
SetorConds(s) ==
  IF setor_sel(s) # {} THEN << Cond("setor", "IN", None, setor_sel(s)) >>
  ELSE << >>

\* The visit range is appended unconditionally ("sempre ativo").
VisitaConds(s, info) ==
  << Cond("data_ultima_visita", ">=",
          DateLiteral(data_inicio_visita(s, info)), {}),
     Cond("data_ultima_visita", "<=",
          CombineMaxTime(data_fim_visita(s, info)), {}) >>

CompraActive(s, info) ==
  /\ usar_compra(s)
  /\ data_inicio_compra(s, info) # None
  /\ data_fim_compra(s, info) # None

CompraConds(s, info) ==
  IF CompraActive(s, info)
  THEN << Cond("data_ultima_compra", ">=",
               DateLiteral(data_inicio_compra(s, info)), {}),
          Cond("data_ultima_compra", "<=",
               CombineMaxTime(data_fim_compra(s, info)), {}) >>
  ELSE << >>

CompraWarnings(s, info) ==
  IF CompraActive(s, info) /\ apenas_sem_compra(s)
  THEN << "'Apenas sem compra' e filtro por data de compra sao contraditorios" >>
  ELSE << >>

\* Mutant of CadastroConds: the range is appended whatever the toggle says,
\* as the visit range is.
CadastroConds_AlwaysOn(s, info) ==
  << Cond("data_cadastro", ">=",
          DateLiteral(date_input(s.inicio_cadastro, info.min_cadastro)), {}),
     Cond("data_cadastro", "<=",
          CombineMaxTime(date_input(s.fim_cadastro, info.max_cadastro)), {}) >>

CadastroConds(s, info) ==
  IF /\ usar_cadastro(s)
     /\ data_inicio_cadastro(s, info) # None
     /\ data_fim_cadastro(s, info) # None
  THEN << Cond("data_cadastro", ">=",
               DateLiteral(data_inicio_cadastro(s, info)), {}),
          Cond("data_cadastro", "<=",
               CombineMaxTime(data_fim_cadastro(s, info)), {}) >>
  ELSE << >>

SemCompraConds(s) ==
  IF apenas_sem_compra(s)
  THEN << Cond("data_ultima_compra", "IS NULL", None, {}) >>
  ELSE << >>

FuncionarioConds(s, info) ==
  IF info.has_flg_funcionario
  THEN IF filtro_funcionarios(s, info) = "Apenas funcionarios"
       THEN << Cond("flg_funcionario", "=", None, {"S"}) >>
       ELSE IF filtro_funcionarios(s, info) = "Excluir funcionarios"
       THEN << Cond("flg_funcionario", "= OR IS NULL", None, {"N"}) >>
       ELSE << >>
  ELSE << >>

\* Mutant of PremiumConds: the second test is an if, not an elif.
PremiumConds_Both(s, info) ==
  IF info.has_flg_premium
  THEN (IF apenas_premium(s, info)
        THEN << Cond("flg_premium_ativo", "=", None, {"S"}) >>
        ELSE << >>)
       \o (IF excluir_premium(s, info)
           THEN << Cond("flg_premium_ativo", "= OR IS NULL", None, {"N"}) >>
           ELSE << >>)
  ELSE << >>

PremiumConds(s, info) ==
  IF info.has_flg_premium
  THEN IF apenas_premium(s, info)
       THEN << Cond("flg_premium_ativo", "=", None, {"S"}) >>
       ELSE IF excluir_premium(s, info)
       THEN << Cond("flg_premium_ativo", "= OR IS NULL", None, {"N"}) >>
       ELSE << >>
  ELSE << >>

PremiumWarnings(s, info) ==
  IF /\ info.has_flg_premium
     /\ apenas_premium(s, info)
     /\ excluir_premium(s, info)
  THEN << "'Apenas premium' e 'Excluir premium' sao contraditorios" >>
  ELSE << >>

\* " AND ".join(conditions) if conditions else "1=1": the conjunction, kept
\* as the sequence of its conditions.
JoinAnd(conditions) ==
  IF conditions # << >> THEN conditions
  ELSE << Cond("1", "=1", None, {}) >>

\* Returns (where_clause, filter_warnings); no path of it raises.
build_query_conditions(s, info) ==
  [where_clause |->
     JoinAnd(IdConds(s) \o CatConds(s) \o SetorConds(s)
             \o VisitaConds(s, info) \o CompraConds(s, info)
             \o CadastroConds(s, info) \o SemCompraConds(s)
             \o FuncionarioConds(s, info) \o PremiumConds(s, info)),
   filter_warnings |-> CompraWarnings(s, info) \o PremiumWarnings(s, info)]

\* ------------------------------------------------------------ the engine
\* DuckDB's evaluation of one condition on one row.  A comparison with NULL
\* is NULL, and WHERE keeps a row only when the condition is TRUE.
Holds(c, row) ==
  CASE c.op = "=1" -> TRUE
    [] c.op = "=" -> row[c.col] # NULL /\ row[c.col] \in c.strs
    [] c.op = "IN" -> row[c.col] # NULL /\ row[c.col] \in c.strs
    [] c.op = "= OR IS NULL" -> row[c.col] = NULL \/ row[c.col] \in c.strs
    [] c.op = ">=" -> row[c.col] # None /\ row[c.col] >= c.num
    [] c.op = "<=" -> row[c.col] # None /\ row[c.col] <= c.num
    [] c.op = "IS NULL" -> row[c.col] = None
    [] c.op = "const" -> c.num = 1
    [] c.op = "error" -> FALSE

\* The query text.  A text is the sequence of its lexical pieces; a value
\* interpolated by an f-string contributes its own pieces, quotes included.
Pieces(v) ==
  CASE v = "" -> << >>
    [] v = InjectionId -> << "x", "'", "OR", "'", "1", "'", "=", "'", "1" >>
    [] OTHER -> << v >>

\* f"'{v}'"
Quoted(v) == << "'" >> \o Pieces(v) \o << "'" >>

\* ', '.join([f"'{c}'" for c in sel])
RECURSIVE QuotedList(_)
QuotedList(S) ==
  IF S = {} THEN << >>
  ELSE LET v == CHOOSE x \in S : TRUE IN
       IF S = {v} THEN Quoted(v)
       ELSE Quoted(v) \o << "," >> \o QuotedList(S \ {v})

\* The text of one element of the conditions list, as its f-string makes it.
RenderCond(c) ==
  LET v == CHOOSE x \in c.strs : TRUE IN
  CASE c.op = "=1" -> << "1=1" >>
    [] c.op = "=" -> << c.col, "=" >> \o Quoted(v)
    [] c.op = "IN" -> << c.col, "IN", "(" >> \o QuotedList(c.strs) \o << ")" >>
    [] c.op = "= OR IS NULL" ->
         << "(", c.col, "=" >> \o Quoted(v) \o << "OR", c.col, "IS NULL", ")" >>
    [] c.op \in {">=", "<="} -> << c.col, c.op, "'", ToString(c.num), "'" >>
    [] c.op = "IS NULL" -> << c.col, "IS NULL" >>

\* " AND ".join(conditions): the where_clause text interpolated into a query.
RECURSIVE Render(_)
Render(conditions) ==
  IF Len(conditions) = 1 THEN RenderCond(conditions[1])
  ELSE RenderCond(conditions[1]) \o << "AND" >> \o Render(Tail(conditions))

\* DuckDB's lexer: a quote opens a string literal and the next quote closes
\* it; whatever stands between them is the literal's value.
Sym(s) == [lit |-> FALSE, v |-> << s >>]
Lit(v) == [lit |-> TRUE, v |-> v]

RECURSIVE LexFrom(_, _, _, _)
LexFrom(text, i, inlit, cur) ==
  IF i > Len(text)
  THEN IF inlit THEN << Sym("<unterminated>") >> ELSE << >>
  ELSE IF text[i] = "'"
       THEN IF inlit THEN << Lit(cur) >> \o LexFrom(text, i + 1, FALSE, << >>)
            ELSE LexFrom(text, i + 1, TRUE, << >>)
       ELSE IF inlit THEN LexFrom(text, i + 1, TRUE, Append(cur, text[i]))
            ELSE << Sym(text[i]) >> \o LexFrom(text, i + 1, FALSE, << >>)

Lex(text) == LexFrom(text, 1, FALSE, << >>)

\* DuckDB's parser.  OR binds weaker than AND: the expression is split at the
\* ORs outside parentheses, and each part at its ANDs.
RECURSIVE SplitTop(_, _, _, _, _)
SplitTop(lx, kw, i, depth, cur) ==
  IF i > Len(lx) THEN << cur >>
  ELSE IF lx[i] = Sym(kw) /\ depth = 0
       THEN << cur >> \o SplitTop(lx, kw, i + 1, 0, << >>)
       ELSE SplitTop(lx, kw, i + 1,
                     IF lx[i] = Sym("(") THEN depth + 1
                     ELSE IF lx[i] = Sym(")") THEN depth - 1 ELSE depth,
                     Append(cur, lx[i]))

DateColumns == {"data_ultima_visita", "data_ultima_compra", "data_cadastro"}

\* The value a literal denotes: a text, or (cast to TIMESTAMP) an instant.
TextOf(v) == IF v = << >> THEN "" ELSE v[1]
TimestampOf(v) ==
  CHOOSE n \in (0 - 2 * TicksPerDay)..((MaxDay + 2) * TicksPerDay) :
    ToString(n) = v[1]

\* One operand of an AND, read back as a condition.
ParseAtom(a) ==
  LET col == a[1].v[1] IN
  IF a = << Sym("1=1") >> THEN Cond("1", "=1", None, {})
  ELSE IF Len(a) = 3 /\ a[1].lit /\ a[2] = Sym("=") /\ a[3].lit
  THEN Cond("", "const", IF a[1].v = a[3].v THEN 1 ELSE 0, {})
  ELSE IF Len(a) = 2 /\ ~a[1].lit /\ a[2] = Sym("IS NULL")
  THEN Cond(col, "IS NULL", None, {})
  ELSE IF /\ Len(a) = 3 /\ ~a[1].lit /\ a[3].lit /\ Len(a[3].v) <= 1
          /\ col \notin DateColumns /\ a[2] = Sym("=")
  THEN Cond(col, "=", None, {TextOf(a[3].v)})
  ELSE IF /\ Len(a) = 3 /\ ~a[1].lit /\ a[3].lit /\ Len(a[3].v) = 1
          /\ col \in DateColumns /\ a[2] \in {Sym(">="), Sym("<=")}
  THEN Cond(col, a[2].v[1], TimestampOf(a[3].v), {})
  ELSE IF /\ Len(a) >= 5 /\ ~a[1].lit /\ a[2] = Sym("IN")
          /\ a[3] = Sym("(") /\ a[Len(a)] = Sym(")")
          /\ \A i \in 4..(Len(a) - 1) :
               IF i % 2 = 0 THEN a[i].lit /\ Len(a[i].v) <= 1
               ELSE a[i] = Sym(",")
  THEN Cond(col, "IN", None,
            { TextOf(a[i].v) : i \in { j \in 4..(Len(a) - 1) : j % 2 = 0 } })
  ELSE IF /\ Len(a) = 8 /\ a[1] = Sym("(") /\ ~a[2].lit /\ a[3] = Sym("=")
          /\ a[4].lit /\ Len(a[4].v) <= 1 /\ a[5] = Sym("OR")
          /\ a[6] = a[2] /\ a[7] = Sym("IS NULL") /\ a[8] = Sym(")")
  THEN Cond(a[2].v[1], "= OR IS NULL", None, {TextOf(a[4].v)})
  ELSE Cond("", "error", None, {})

\* The predicate the engine runs for a query text: a disjunction (outer
\* sequence) of conjunctions (inner sequences) of conditions.
RECURSIVE ParseAnds(_, _)
ParseAnds(ands, i) ==
  IF i > Len(ands) THEN << >>
  ELSE << IF ands[i] = << >> THEN Cond("", "error", None, {})
          ELSE ParseAtom(ands[i]) >> \o ParseAnds(ands, i + 1)

RECURSIVE ParseOrs(_, _)
ParseOrs(ors, d) ==
  IF d > Len(ors) THEN << >>
  ELSE << ParseAnds(SplitTop(ors[d], "AND", 1, 0, << >>), 1) >>
       \o ParseOrs(ors, d + 1)

Parse(text) == ParseOrs(SplitTop(Lex(text), "OR", 1, 0, << >>), 1)

\* The engine accepts the parsed text (otherwise execute() raises).
Accepted(p) ==
  \A d \in 1..Len(p) : \A i \in 1..Len(p[d]) : p[d][i].op # "error"

WellFormed(text) == Accepted(Parse(text))

\* The kinds of row that a parsed predicate keeps.
Kept(ds, p) ==
  { r \in Present(ds) :
      \E d \in 1..Len(p) : \A i \in 1..Len(p[d]) : Holds(p[d][i], Row(r)) }

\* The kinds of row that WHERE <where> keeps, <where> being the text of the
\* conditions joined by AND.
Matching(ds, where) == Kept(ds, Parse(Render(where)))

\* stats_query: COUNT(*) and COUNT(DISTINCT member_pk) over the filtered rows;
\* accepted tells whether execute() returned or raised on the text.
StatsQuery(ds, where) ==
  LET p == Parse(Render(where))
      kept == Kept(ds, p)
  IN [accepted |-> Accepted(p),
      total_registros |-> SumMult(ds, kept),
      clientes_unicos |-> Cardinality({ Row(r).member_pk : r \in kept })]

\* Mutant of PreviewQuery: the LIMIT clause is missing.
PreviewQuery_NoLimit(ds, where) == SumMult(ds, Matching(ds, where))

\* preview_query: ... WHERE <where> ORDER BY ... LIMIT 100; the frame's length.
PreviewQuery(ds, where) ==
  Min2(SumMult(ds, Matching(ds, where)), PreviewLimit)

\* Mutant of ExportQuery: the WHERE clause is missing.
ExportQuery_NoWhere(ds, sch, where, only_pk) ==
  [rows |-> SumMult(ds, RowIds),
   columns |-> IF only_pk THEN {"member_pk"} ELSE Columns(sch)]

\* Mutant of ExportQuery: select_cols is always "*".
ExportQuery_AllColumns(ds, sch, where, only_pk) ==
  [rows |-> SumMult(ds, Matching(ds, where)),
   columns |-> Columns(sch)]

\* export_query: SELECT <select_cols> ... WHERE <where> ORDER BY ..., no LIMIT;
\* .df() materialises the whole result as one frame.
ExportQuery(ds, sch, where, only_pk) ==
  [rows |-> SumMult(ds, Matching(ds, where)),
   columns |-> IF only_pk THEN {"member_pk"} ELSE Columns(sch)]

\* Mutant of AfterEncode: the download button is rendered before the encoding
\* is known to have succeeded.
AfterEncode_Always(ok) == "download"

\* The export try block: an exception in the export query or in the encoding
\* skips the rest of the block, st.download_button included.
AfterExportQuery(ok) == IF ok THEN "encode" ELSE "close"
AfterEncode(ok) == IF ok THEN "download" ELSE "close"

NoFrame == [rows |-> None, columns |-> {}]

\* export_df.to_excel(writer, index=False, ...) / export_df.to_csv(index=False,
\* ...): a header of the frame's column names and one line per row; the
\* frame's index is written as one more column only when index is set.
ToFile(df, index) ==
  [rows |-> df.rows,
   columns |-> IF index THEN df.columns \cup {"index"} ELSE df.columns]

\* Mutant of export_disabled: the format is compared with the wrong label.
export_disabled_WrongLabel(total, format) ==
  total > ExcelLimit /\ format = "XLSX"

\* export_disabled = total_filtrado > 1000000 and export_format == "Excel"
export_disabled(total, format) == total > ExcelLimit /\ format = "Excel"

\* Mutant of LoadGuard: st.stop() is missing.
LoadGuard_NoStop(info) == "sidebar"

\* if not dataset_info: st.error(...); st.stop()
LoadGuard(info) == IF info = NoneInfo THEN "stopped" ELSE "sidebar"

\* ------------------------------------------------------------------ state
VARIABLES
  dataset,        \* the remote parquet file: multiplicity of each kind of row
  schema,         \* which optional flag columns the file has
  session,        \* widget values held by the browser session
  clicked,        \* st.button("Gerar Arquivo") returns True in this run
  interactions,   \* user interactions so far
  cached,         \* st.cache_data holds a result of get_dataset_info
  dataset_info,   \* the script's dataset_info (NoneInfo: None)
  pc,             \* the section of the script the run is at
  rendered,       \* the sidebar widgets were rendered in this run
  where_clause,   \* << >> until build_query_conditions has returned
  warnings_list,
  total_filtrado,
  clientes_unicos,
  con,            \* "unbound", "open", "closed" or "None"
  queries,        \* queries the script body sent to the engine in this run
  preview_df,     \* rows of preview_df, None until the preview query returned
  export_df,      \* the frame held in memory by the export
  button_offered, \* st.button("Gerar Arquivo") was rendered in this run
  downloads,      \* st.download_button calls of this run
  download_rows,  \* len(export_df) shown in the download label
  messages,       \* st.error / st.warning / st.success boxes of this run
  opened,         \* duckdb.connect() calls that returned, this run
  closed,         \* con.close() calls of this run
  finalized,      \* connections closed by the interpreter's finalizer
  file_data       \* the encoded file: its columns and data rows

env == << dataset, schema >>
browser == << session, clicked, interactions >>
run == << rendered, where_clause, warnings_list, total_filtrado,
          clientes_unicos, con, queries, preview_df, export_df,
          button_offered, downloads, download_rows, messages, opened, closed,
          finalized, file_data >>
vars == << dataset, schema, session, clicked, interactions, cached,
           dataset_info, pc, rendered, where_clause, warnings_list,
           total_filtrado, clientes_unicos, con, queries, preview_df,
           export_df, button_offered, downloads, download_rows, messages,
           opened, closed, finalized, file_data >>

\* The script's state when a run begins.
RunStart ==
  /\ rendered = FALSE
  /\ where_clause = << >>
  /\ warnings_list = << >>
  /\ total_filtrado = 0
  /\ clientes_unicos = 0
  /\ con = "unbound"
  /\ queries = << >>
  /\ preview_df = None
  /\ export_df = NoFrame
  /\ button_offered = FALSE
  /\ downloads = 0
  /\ download_rows = None
  /\ messages = {}
  /\ opened = 0
  /\ closed = 0
  /\ finalized = 0
  /\ file_data = NoFrame

Init ==
  /\ dataset \in Datasets
  /\ schema \in Schemas
  /\ session = InitialSession
  /\ clicked = FALSE
  /\ interactions = 0
  /\ cached = FALSE
  /\ dataset_info = NoneInfo
  /\ pc = "start"
  /\ RunStart

\* ------------------------------------------------------------ script steps
\* get_dataset_info, cache miss: the body runs.  "download" raises before the
\* connection exists, "query" after duckdb.connect() returned (the except
\* returns None without closing it), "describe" is the inner try's failure.
GetDatasetInfo ==
  /\ pc = "start"
  /\ ~cached
  /\ \E outcome \in {"ok", "download", "query", "describe"} :
       /\ dataset_info' =
            IF outcome \in {"download", "query"} THEN NoneInfo
            ELSE DatasetInfo(dataset, schema, outcome = "ok")
       /\ opened' = IF outcome = "download" THEN opened ELSE opened + 1
       /\ closed' = IF outcome \in {"ok", "describe"} THEN closed + 1
                    ELSE closed
       /\ \E collected \in BOOLEAN :
            finalized' = IF outcome = "query" /\ collected
                         THEN finalized + 1 ELSE finalized
       /\ messages' =
            IF outcome \in {"download", "query"}
            THEN {"Erro de conexao", "Nao foi possivel carregar os dados"}
            ELSE messages
       /\ pc' = LoadGuard(dataset_info')
  /\ cached' = TRUE
  /\ UNCHANGED << env, browser, file_data,
                  rendered, where_clause, warnings_list,
                  total_filtrado, clientes_unicos, con, queries, preview_df,
                  export_df, button_offered, downloads, download_rows >>

\* get_dataset_info, cache hit: the stored result and its st.error replay.
GetDatasetInfoCached ==
  /\ pc = "start"
  /\ cached
  /\ messages' =
       IF dataset_info = NoneInfo
       THEN {"Erro de conexao", "Nao foi possivel carregar os dados"}
       ELSE messages
  /\ pc' = LoadGuard(dataset_info)
  /\ UNCHANGED << env, browser, finalized, file_data,
                  cached, dataset_info, rendered, where_clause,
                  warnings_list, total_filtrado, clientes_unicos, con,
                  queries, preview_df, export_df, button_offered, downloads,
                  download_rows, opened, closed >>

\* with st.sidebar: every filter and export widget is rendered.
Sidebar ==
  /\ pc = "sidebar"
  /\ rendered' = TRUE
  /\ messages' =
       IF apenas_premium(session, dataset_info)
          /\ excluir_premium(session, dataset_info)
       THEN messages \cup {"Selecione apenas uma opcao de filtro premium"}
       ELSE messages
  /\ pc' = "analyse"
  /\ UNCHANGED << env, browser, finalized, file_data,
                  cached, dataset_info, where_clause,
                  warnings_list, total_filtrado, clientes_unicos, con,
                  queries, preview_df, export_df, button_offered, downloads,
                  download_rows, opened, closed >>

\* The try block of the automatic analysis: build_query_conditions, connect,
\* stats query.  "connect" and "query" are the two places an exception can
\* come from (a text the engine cannot parse always raises); the except sets
\* the totals to 0 and con to None.
Analyse ==
  /\ pc = "analyse"
  /\ LET built == build_query_conditions(session, dataset_info) IN
     /\ where_clause' = built.where_clause
     /\ warnings_list' = built.filter_warnings
     /\ \E stats \in {StatsQuery(dataset, built.where_clause)},
             outcome \in {"ok", "connect", "query"} :
          /\ outcome = "ok" => stats.accepted
          /\ opened' = IF outcome = "connect" THEN opened ELSE opened + 1
          /\ queries' = IF outcome = "connect" THEN queries
                        ELSE Append(queries, "stats")
          /\ con' = IF outcome = "ok" THEN "open" ELSE "None"
          /\ \E collected \in BOOLEAN :
               finalized' = IF outcome = "query" /\ collected
                            THEN finalized + 1 ELSE finalized
          /\ total_filtrado' =
               IF outcome = "ok" THEN stats.total_registros ELSE 0
          /\ clientes_unicos' =
               IF outcome = "ok" THEN stats.clientes_unicos ELSE 0
          /\ messages' =
               (IF built.filter_warnings # << >>
                THEN messages \cup {"Atencao aos filtros"} ELSE messages)
               \cup (IF outcome = "ok" THEN {}
                     ELSE {"Erro na analise dos dados"})
  /\ pc' = "results"
  /\ UNCHANGED << env, browser, file_data,
                  cached, dataset_info, rendered, preview_df,
                  export_df, button_offered, downloads, download_rows,
                  closed >>

\* if total_filtrado > 0 and con is not None: the preview expander.
Preview ==
  /\ pc = "results"
  /\ total_filtrado > 0
  /\ con # "None"
  /\ \E ok \in BOOLEAN :
       /\ preview_df' =
            IF ok THEN PreviewQuery(dataset, where_clause) ELSE preview_df
       /\ messages' =
            IF ok THEN messages ELSE messages \cup {"Erro na pre-visualizacao"}
  /\ queries' = Append(queries, "preview")
  /\ pc' = "export"
  /\ UNCHANGED << env, browser, finalized, file_data,
                  cached, dataset_info, rendered, where_clause,
                  warnings_list, total_filtrado, clientes_unicos, con,
                  export_df, button_offered, downloads, download_rows,
                  opened, closed >>

\* elif con is not None: nothing matched; the connection is closed.
NoRecords ==
  /\ pc = "results"
  /\ ~(total_filtrado > 0 /\ con # "None")
  /\ con # "None"
  /\ messages' = messages \cup {"Nenhum registro encontrado"}
  /\ con' = "closed"
  /\ closed' = closed + 1
  /\ pc' = "done"
  /\ UNCHANGED << env, browser, finalized, file_data,
                  cached, dataset_info, rendered, where_clause,
                  warnings_list, total_filtrado, clientes_unicos, queries,
                  preview_df, export_df, button_offered, downloads,
                  download_rows, opened >>

\* The analysis failed (con is None): neither branch runs, only the footer.
AnalysisFailed ==
  /\ pc = "results"
  /\ con = "None"
  /\ pc' = "done"
  /\ UNCHANGED << env, browser, cached, dataset_info, run >>

\* if export_disabled: st.warning("Excel limitado a 1M registros")
ExportDisabled ==
  /\ pc = "export"
  /\ export_disabled(total_filtrado, export_format(session))
  /\ messages' = messages \cup {"Excel limitado a 1M registros"}
  /\ pc' = "close"
  /\ UNCHANGED << env, browser, finalized, file_data,
                  cached, dataset_info, rendered, where_clause,
                  warnings_list, total_filtrado, clientes_unicos, con,
                  queries, preview_df, export_df, button_offered, downloads,
                  download_rows, opened, closed >>

\* else: if st.button("Gerar Arquivo"): the button is rendered, and the try
\* block is entered only in the run its click triggered.
ExportButton ==
  /\ pc = "export"
  /\ ~export_disabled(total_filtrado, export_format(session))
  /\ button_offered' = TRUE
  /\ pc' = IF clicked THEN "export_query" ELSE "close"
  /\ UNCHANGED << env, browser, finalized, file_data,
                  cached, dataset_info, rendered, where_clause,
                  warnings_list, total_filtrado, clientes_unicos, con,
                  queries, preview_df, export_df, downloads, download_rows,
                  messages, opened, closed >>

\* export_df = con.execute(export_query).df()
RunExportQuery ==
  /\ pc = "export_query"
  /\ queries' = Append(queries, "export")
  /\ \E ok \in BOOLEAN :
       /\ export_df' =
            IF ok
            THEN ExportQuery(dataset, schema, where_clause,
                             only_member_pk(session))
            ELSE export_df
       /\ messages' =
            IF ok THEN messages ELSE messages \cup {"Erro na exportacao"}
       /\ pc' = AfterExportQuery(ok)
  /\ UNCHANGED << env, browser, finalized, file_data,
                  cached, dataset_info, rendered, where_clause,
                  warnings_list, total_filtrado, clientes_unicos, con,
                  preview_df, button_offered, downloads, download_rows,
                  opened, closed >>

\* to_excel / to_csv(...).encode(): the whole frame is encoded to bytes.
EncodeFile ==
  /\ pc = "encode"
  /\ \E ok \in BOOLEAN :
       /\ messages' =
            IF ok THEN messages ELSE messages \cup {"Erro na exportacao"}
       /\ file_data' =
            IF ok THEN ToFile(export_df, FALSE) ELSE file_data
       /\ pc' = AfterEncode(ok)
  /\ UNCHANGED << env, browser, finalized,
                  cached, dataset_info, rendered, where_clause,
                  warnings_list, total_filtrado, clientes_unicos, con,
                  queries, preview_df, export_df, button_offered, downloads,
                  download_rows, opened, closed >>

\* st.download_button(label=... len(export_df) ...); st.success(...)
DownloadButton ==
  /\ pc = "download"
  /\ downloads' = downloads + 1
  /\ download_rows' = export_df.rows
  /\ messages' = messages \cup {"Arquivo gerado com sucesso"}
  /\ pc' = "close"
  /\ UNCHANGED << env, browser, finalized, file_data,
                  cached, dataset_info, rendered, where_clause,
                  warnings_list, total_filtrado, clientes_unicos, con,
                  queries, preview_df, export_df, button_offered, opened,
                  closed >>

\* if con: con.close()  (end of the first branch), then the footer.
CloseConnection ==
  /\ pc = "close"
  /\ con' = "closed"
  /\ closed' = closed + 1
  /\ pc' = "done"
  /\ UNCHANGED << env, browser, finalized, file_data,
                  cached, dataset_info, rendered, where_clause,
                  warnings_list, total_filtrado, clientes_unicos, queries,
                  preview_df, export_df, button_offered, downloads,
                  download_rows, messages, opened >>

\* ------------------------------------------------------- user interactions
\* Changing a widget (or clicking the button) reruns the script from the top
\* with the new widget values.  Only a widget the finished run rendered can be
\* used; a run that stopped at the dataset guard rendered none.
Rerun(s, click) ==
  /\ pc = "done"
  /\ interactions < MaxInteractions
  /\ session' = s
  /\ clicked' = click
  /\ interactions' = interactions + 1
  /\ pc' = "start"
  /\ rendered' = FALSE
  /\ where_clause' = << >>
  /\ warnings_list' = << >>
  /\ total_filtrado' = 0
  /\ clientes_unicos' = 0
  /\ con' = "unbound"
  /\ queries' = << >>
  /\ preview_df' = None
  /\ export_df' = NoFrame
  /\ button_offered' = FALSE
  /\ downloads' = 0
  /\ download_rows' = None
  /\ messages' = {}
  /\ opened' = 0
  /\ closed' = 0
  /\ finalized' = 0
  /\ file_data' = NoFrame
  /\ UNCHANGED << env, cached, dataset_info >>

Checkboxes(s, info) ==
  {"apenas_sem_compra", "toggle_cadastro", "toggle_compra", "only_member_pk"}
    \cup (IF info.has_flg_premium
          THEN {"apenas_premium", "excluir_premium"} ELSE {})

DateWidgets(s) ==
  {"inicio_visita", "fim_visita"}
    \cup (IF s.toggle_cadastro THEN {"inicio_cadastro", "fim_cadastro"} ELSE {})
    \cup (IF s.toggle_compra THEN {"inicio_compra", "fim_compra"} ELSE {})

\* The date a rendered date widget currently shows.
ShownDate(s, info, f) ==
  CASE f = "inicio_visita" -> data_inicio_visita(s, info)
    [] f = "fim_visita" -> data_fim_visita(s, info)
    [] f = "inicio_cadastro" -> data_inicio_cadastro(s, info)
    [] f = "fim_cadastro" -> data_fim_cadastro(s, info)
    [] f = "inicio_compra" -> data_inicio_compra(s, info)
    [] f = "fim_compra" -> data_fim_compra(s, info)

TypeId ==
  \E v \in IdInputs \ {session.id_busca} :
    Rerun([session EXCEPT !.id_busca = v], FALSE)

SelectCategoria ==
  \E c \in dataset_info.categorias :
    Rerun([session EXCEPT !.cat_sel =
             IF c \in @ THEN @ \ {c} ELSE @ \cup {c}], FALSE)

SelectSetor ==
  \E c \in dataset_info.setores :
    Rerun([session EXCEPT !.setor_sel =
             IF c \in @ THEN @ \ {c} ELSE @ \cup {c}], FALSE)

ToggleCheckbox ==
  \E f \in Checkboxes(session, dataset_info) :
    Rerun([session EXCEPT ![f] = ~@], FALSE)

ChooseFuncionarios ==
  /\ dataset_info.has_flg_funcionario
  /\ \E v \in FuncOptions \ {session.filtro_funcionarios} :
       Rerun([session EXCEPT !.filtro_funcionarios = v], FALSE)

ChooseFormat ==
  \E v \in Formats \ {session.export_format} :
    Rerun([session EXCEPT !.export_format = v], FALSE)

PickDate ==
  \E f \in DateWidgets(session) :
    \E d \in Days \ {ShownDate(session, dataset_info, f)} :
      Rerun([session EXCEPT ![f] = d], FALSE)

ClickExport ==
  /\ button_offered
  /\ Rerun(session, TRUE)

Next ==
  \/ GetDatasetInfo
  \/ GetDatasetInfoCached
  \/ Sidebar
  \/ Analyse
  \/ Preview
  \/ NoRecords
  \/ AnalysisFailed
  \/ ExportDisabled
  \/ ExportButton
  \/ RunExportQuery
  \/ EncodeFile
  \/ DownloadButton
  \/ CloseConnection
  \/ TypeId
  \/ SelectCategoria
  \/ SelectSetor
  \/ ToggleCheckbox
  \/ ChooseFuncionarios
  \/ ChooseFormat
  \/ PickDate
  \/ ClickExport

Spec == Init /\ [][Next]_vars

\* ------------------------------------------------------------ properties
\* The spec's batch size for the export ("e.g. 50,000-100,000"); the script
\* itself defines none.
BatchSize == 100000

\* build_query_conditions has returned in this run.
Built == where_clause # << >>

\* The statistics query of this run returned.
AnalysisOk == con \in {"open", "closed"}

CondsOn(col) ==
  { i \in 1..Len(where_clause) : where_clause[i].col = col }

RangeCondsOn(col) ==
  LET IsRange(c) == c.col = col /\ c.op \in {">=", "<="}
  IN SelectSeq(where_clause, IsRange)

\* conds is the pair  col >= start 00:00,  col <= end 23:59:59.999999.
IsRangePair(conds, col, start, end) ==
  /\ Len(conds) = 2
  /\ conds[1].col = col /\ conds[1].op = ">="
  /\ DateOf(conds[1].num) = start /\ conds[1].num % TicksPerDay = 0
  /\ conds[2].col = col /\ conds[2].op = "<="
  /\ DateOf(conds[2].num) = end
  /\ conds[2].num % TicksPerDay = TicksPerDay - 1

Count(seq, x) == Cardinality({ i \in 1..Len(seq) : seq[i] = x })

\* C1 (as claimed): with every widget at its default, the predicate of
\* build_query_conditions matches every row: the filtered count equals the
\* dataset's row count, also when some row has a NULL data_ultima_visita.
C1_UnsetFilterMatchesAll ==
  (session = InitialSession /\ AnalysisOk)
    => total_filtrado = dataset_info.num_rows

\* C2 (as claimed): when "apenas sem compra" and an active purchase-date range
\* are requested together, the builder fails with ContradictoryFilter and
\* emits no predicate.
C2_ContradictionRejected ==
  (/\ pc \in {"results", "export", "export_query", "encode", "download",
              "close", "done"}
   /\ apenas_sem_compra(session)
   /\ CompraActive(session, dataset_info))
    => (where_clause = << >> /\ "ContradictoryFilter" \in messages)

\* A date range of the run whose start is after its end.
InvertedRange ==
  \/ data_inicio_visita(session, dataset_info)
       > data_fim_visita(session, dataset_info)
  \/ /\ usar_compra(session)
     /\ data_inicio_compra(session, dataset_info)
          > data_fim_compra(session, dataset_info)
  \/ /\ usar_cadastro(session)
     /\ data_inicio_cadastro(session, dataset_info)
          > data_fim_cadastro(session, dataset_info)

\* C3 (as claimed): with every range start <= end the builder returns a
\* predicate; with some range start > end it raises InvalidRange and emits no
\* inverted pair of conditions.
C3_InvertedRangeRejected ==
  (pc \in {"results", "export", "export_query", "encode", "download",
           "close", "done"})
    => IF InvertedRange
       THEN where_clause = << >> /\ "InvalidRange" \in messages
       ELSE where_clause # << >>

OverExcelLimit ==
  total_filtrado > ExcelLimit /\ export_format(session) = "Excel"

\* C5 (as claimed): an Excel export above the ceiling is rejected before any
\* row is fetched: no export button, no export query, and no row-returning
\* query at all reaches the engine in that run.
C5_NoRowQueryAtAll ==
  OverExcelLimit =>
    /\ ~button_offered
    /\ Count(queries, "export") = 0
    /\ Count(queries, "preview") = 0

\* C5 (amended): in a run with an Excel export above the ceiling the export
\* button is never offered, the export query is never executed and nothing is
\* offered for download; the statistics query and the preview query (at most
\* 100 rows) of the page still run.
C5_ExportRejected ==
  OverExcelLimit =>
    /\ ~button_offered
    /\ Count(queries, "export") = 0
    /\ export_df = NoFrame
    /\ downloads = 0
    /\ (pc \in {"close", "done"} => "Excel limitado a 1M registros" \in messages)

C5_Witness ==
  /\ OverExcelLimit
  /\ pc = "done"
  /\ "Excel limitado a 1M registros" \in messages
  /\ Count(queries, "preview") = 1

\* C6: every export request ends with one downloadable artifact or none.  If
\* the export query or the encoding fails, no download button is offered, an
\* error is shown and the export query is not sent again; if both succeed
\* exactly one download button is offered.
C6_OneArtifactOrNone ==
  /\ downloads <= 1
  /\ Count(queries, "export") <= 1
  /\ (Count(queries, "export") = 0 => downloads = 0)
  /\ (pc \in {"close", "done"} /\ Count(queries, "export") = 1) =>
       \/ "Erro na exportacao" \in messages /\ downloads = 0
       \/ /\ "Erro na exportacao" \notin messages
          /\ downloads = 1
          /\ "Arquivo gerado com sucesso" \in messages

\* An export whose query returned and whose encoding raised.
C6_Witness ==
  /\ pc = "done"
  /\ export_df # NoFrame
  /\ "Erro na exportacao" \in messages
  /\ downloads = 0

\* C7: the number of rows of the exported frame, shown in the download label,
\* equals the count the statistics query reported for the same predicate.
C7_ExportCountEqualsStats ==
  downloads > 0 => download_rows = total_filtrado

\* A download whose predicate kept some rows and dropped others.
C7_Witness ==
  /\ downloads = 1
  /\ download_rows = total_filtrado
  /\ total_filtrado < dataset_info.num_rows

\* C8 (as claimed): the export never holds more rows in memory than one
\* batch of fixed size.
C8_BoundedBatches ==
  export_df # NoFrame => export_df.rows <= BatchSize

\* C9: when get_dataset_info returned None the run stops at the guard: no
\* widget is rendered, build_query_conditions is not called, no statistics,
\* preview or export query runs, no export button is offered, and an error
\* message is shown.
C9_StopsWhenDatasetUnavailable ==
  (pc # "start" /\ dataset_info = NoneInfo) =>
    /\ pc = "stopped"
    /\ ~rendered
    /\ ~Built
    /\ queries = << >>
    /\ ~button_offered
    /\ downloads = 0
    /\ "Nao foi possivel carregar os dados" \in messages

\* The dataset queries raised after the connection had been opened.
C9_Witness ==
  /\ pc = "stopped"
  /\ dataset_info = NoneInfo
  /\ opened = 1

\* C10: the preview never shows more than 100 rows (so never more than the
\* 1000 of the spec's ceiling), nor more rows than the filtered count.
C10_PreviewBounded ==
  preview_df # None =>
    /\ preview_df <= PreviewLimit
    /\ preview_df <= 1000
    /\ preview_df <= total_filtrado

\* A preview cut by the LIMIT.
C10_Witness ==
  /\ preview_df = PreviewLimit
  /\ total_filtrado > PreviewLimit

\* C11 (as claimed): every literal is escaped or parameterized: whatever the
\* user typed, the predicate the engine runs is one conjunction whose
\* conditions are exactly the conditions of the selected filters, the typed
\* text being the value of one literal.
C11_LiteralsNeverAlterPredicate ==
  Built => Parse(Render(where_clause)) = << where_clause >>

\* C12: the projection follows the "export only IDs" checkbox: the exported
\* frame and the encoded file have the single column member_pk when it is
\* checked and every column of the dataset otherwise; the predicate and the
\* exported rows do not depend on the checkbox.
C12_ProjectionFollowsOption ==
  /\ export_df # NoFrame =>
       /\ export_df.columns =
            (IF only_member_pk(session) THEN {"member_pk"}
             ELSE Columns(schema))
       /\ export_df.rows = total_filtrado
       /\ where_clause =
            build_query_conditions(
              [session EXCEPT !.only_member_pk = ~@],
              dataset_info).where_clause
  /\ file_data # NoFrame =>
       /\ file_data.columns = export_df.columns
       /\ file_data.rows = export_df.rows

\* An identifier-only file with rows offered for download, of a dataset that
\* has more columns than member_pk.
C12_Witness ==
  /\ downloads = 1
  /\ only_member_pk(session)
  /\ file_data.columns = {"member_pk"}
  /\ Columns(schema) # {"member_pk"}
  /\ file_data.rows > 0

\* C13: the predicate has at most one condition on flg_premium_ativo; with
\* both premium checkboxes checked the condition is flg_premium_ativo = 'S',
\* the contradiction is in the returned warnings and the text is one the
\* engine accepts; no condition on flg_premium_ativo or flg_funcionario is
\* emitted when the dataset lacks the column.
C13_PremiumExclusive ==
  Built =>
    /\ Cardinality(CondsOn("flg_premium_ativo")) <= 1
    /\ Cardinality(CondsOn("flg_funcionario")) <= 1
    /\ (session.apenas_premium /\ session.excluir_premium) =>
         /\ \A i \in CondsOn("flg_premium_ativo") :
              where_clause[i] =
                Cond("flg_premium_ativo", "=", None, {"S"})
         /\ CondsOn("flg_premium_ativo") # {}
         /\ Count(warnings_list,
                  "'Apenas premium' e 'Excluir premium' sao contraditorios")
              = 1
         /\ WellFormed(Render(where_clause))
    /\ ~schema.flg_premium_ativo => CondsOn("flg_premium_ativo") = {}
    /\ ~schema.flg_funcionario => CondsOn("flg_funcionario") = {}
    /\ ~dataset_info.has_flg_premium => CondsOn("flg_premium_ativo") = {}
    /\ ~dataset_info.has_flg_funcionario => CondsOn("flg_funcionario") = {}

\* Both premium checkboxes checked, and the statistics query ran and counted
\* the premium rows only.
C13_Witness ==
  /\ session.apenas_premium
  /\ session.excluir_premium
  /\ AnalysisOk
  /\ Count(queries, "stats") = 1
  /\ total_filtrado > 0
  /\ total_filtrado < dataset_info.num_rows

\* C14 (as claimed): when a run of the script has ended, every connection it
\* opened has been closed, whichever path the run took.
C14_EveryConnectionClosed ==
  pc \in {"done", "stopped"} => opened = closed + finalized

====
